---- MODULE Spec2Model ----
(***************************************************************************)
(* Model of src/src/App.js: the natural-language task parser               *)
(* parseNaturalLanguage, and the App component around it: its task list,   *)
(* its handlers and its localStorage effects.  Texts are TLA+ strings      *)
(* handled character by character; a Date is its day number (days since    *)
(* 1970-01-01, the host time zone taken to be UTC, so local midnight is a  *)
(* whole day number).                                                      *)
(***************************************************************************)
EXTENDS Integers, Sequences, FiniteSets, TLC

\* inputText: the text of the input field; today: the day the clock reads;
\* result: what one call of parseNaturalLanguage gave.
\* The component: mounted, and the state hooks tasks, editingTask, editText as
\* of the last render; queued: the list handed to setTasks and not rendered
\* yet; effects: the effects of the last render that have not run yet, in the
\* order React runs them; store: localStorage's value for 'taskManagerTasks';
\* clock: milliseconds since the midnight of today.
\* History: savedAtMount is the store as the component mounted, kept until a
\* handler changes the task list.
VARIABLES inputText, today, result,
          mounted, tasks, editingTask, editText, queued, effects, store, clock,
          savedAtMount

vars == <<inputText, today, result,
          mounted, tasks, editingTask, editText, queued, effects, store, clock,
          savedAtMount>>

\* The variables of the component.
appVars == <<mounted, tasks, editingTask, editText, queued, effects, store, clock,
             savedAtMount>>

(***************************************************************************)
(* Bounds of the model.                                                    *)
(***************************************************************************)
\* The input texts are built of the first NumPhrases phrases of PhraseList.
NumPhrases == 38

\* The clock reads one of the first NumTodays days of TodayList.
NumTodays == 7

\* The task list holds at most MaxTasks tasks.
MaxTasks == 2

\* The component's clock reads at most MaxClock milliseconds past midnight.
MaxClock == 1

(***************************************************************************)
(* JavaScript strings and character classes.                               *)
(***************************************************************************)
Upper == "ABCDEFGHIJKLMNOPQRSTUVWXYZ"
Lower == "abcdefghijklmnopqrstuvwxyz"
Digits == "0123456789"

\* The characters of a string, as a set.
CharsOf(abc) == {SubSeq(abc, k, k) : k \in 1..Len(abc)}

DigitChars == CharsOf(Digits)

WordChars == CharsOf(Upper) \cup CharsOf(Lower) \cup DigitChars \cup {"_"}

\* s.substring(a - 1, b): the characters of s at positions a..b (1-based), those
\* of them that exist.
Substring(s, a, b) ==
  LET lo == IF a < 1 THEN 1 ELSE a
      hi == IF b > Len(s) THEN Len(s) ELSE b
  IN IF lo > hi THEN "" ELSE SubSeq(s, lo, hi)

\* s.charAt(i - 1): the i-th character (1-based), "" outside the string.
CharAt(s, i) == IF i >= 1 /\ i <= Len(s) THEN SubSeq(s, i, i) ELSE ""

\* s.slice(i - 1): the rest of the string from the i-th character on.
Slice(s, i) == Substring(s, i, Len(s))

\* 1-based index of character c in the alphabet abc (c is one of its characters).
IndexIn(abc, c) == CHOOSE k \in 1..Len(abc) : SubSeq(abc, k, k) = c

\* Regex class \d.
IsDigit(c) == c \in DigitChars

\* Regex class \w: letters, digits and underscore.
IsWordChar(c) == c \in WordChars

\* Regex class \s (of the characters the model's texts use: space, tab, newline).
IsSpace(c) == c = " " \/ c = "\t" \/ c = "\n"

\* Regex assertion \b just before the i-th character of s (i in 1..Len(s)+1).
WordBoundary(s, i) == IsWordChar(CharAt(s, i - 1)) # IsWordChar(CharAt(s, i))

\* The lower-case and upper-case forms of the letters.
LowerOf == [c \in CharsOf(Upper) |-> SubSeq(Lower, IndexIn(Upper, c), IndexIn(Upper, c))]

UpperOf == [c \in CharsOf(Lower) |-> SubSeq(Upper, IndexIn(Lower, c), IndexIn(Lower, c))]

LowerChar(c) == IF c \in DOMAIN LowerOf THEN LowerOf[c] ELSE c

UpperChar(c) == IF c \in DOMAIN UpperOf THEN UpperOf[c] ELSE c

RECURSIVE ToLowerCase(_)
\* String.prototype.toLowerCase
ToLowerCase(s) ==
  IF s = "" THEN "" ELSE LowerChar(Head(s)) \o ToLowerCase(Tail(s))

\* Whether keyword k occurs in s at position i.
StartsAt(s, i, k) ==
  i >= 1 /\ i + Len(k) - 1 <= Len(s) /\ SubSeq(s, i, i + Len(k) - 1) = k

\* String.prototype.includes
Includes(s, k) == \E i \in 1..(Len(s) - Len(k) + 1) : SubSeq(s, i, i + Len(k) - 1) = k

\* Array.prototype.some(keyword => lowerText.includes(keyword)) over a keyword list.
SomeIncluded(s, keywords) == \E j \in 1..Len(keywords) : Includes(s, keywords[j])

RECURSIVE ParseInt(_)
\* parseInt of a string of decimal digits.
ParseInt(ds) ==
  IF ds = "" THEN 0
  ELSE ParseInt(Substring(ds, 1, Len(ds) - 1)) * 10
         + (IndexIn(Digits, CharAt(ds, Len(ds))) - 1)

\* Number.prototype.toString().padStart(2, '0') of a non-negative integer.
PadStart2(n) == IF n < 10 THEN "0" \o ToString(n) ELSE ToString(n)

\* Length of the run of digits of s that starts at position i (regex \d+, greedy).
RECURSIVE DigitRun(_, _)
DigitRun(s, i) == IF IsDigit(CharAt(s, i)) THEN 1 + DigitRun(s, i + 1) ELSE 0

\* Length of the run of white space of s that starts at position i (regex \s*, greedy).
RECURSIVE SpaceRun(_, _)
SpaceRun(s, i) == IF IsSpace(CharAt(s, i)) THEN 1 + SpaceRun(s, i + 1) ELSE 0

(***************************************************************************)
(* JavaScript Date, in whole days.  A Date holds a time value: here the    *)
(* day number of its local midnight, or no number at all (Invalid Date)    *)
(* once the value leaves the range TimeClip accepts.                       *)
(***************************************************************************)
\* ECMAScript's time range: 8.64e15 ms, which is 100,000,000 days, either side of the epoch.
MaxDayNumber == 100000000

\* ECMAScript TimeClip: whether a day number is a valid time value.
TimeClipOk(t) == t >= -MaxDayNumber /\ t <= MaxDayNumber

\* ECMAScript DaysInYear.
IsLeapYear(y) == (y % 4 = 0 /\ y % 100 # 0) \/ y % 400 = 0

\* ECMAScript DayFromYear: the day number of 1 January of year y.
DayFromYear(y) ==
  365 * (y - 1970) + ((y - 1969) \div 4) - ((y - 1901) \div 100) + ((y - 1601) \div 400)

\* Days in month m (0-based, 0..11) of year y.
DaysInMonth(y, m) ==
  IF m = 1 THEN (IF IsLeapYear(y) THEN 29 ELSE 28)
  ELSE IF m \in {3, 5, 8, 10} THEN 30 ELSE 31

RECURSIVE DaysBeforeMonth(_, _)
\* Days of year y before its month m (0-based, 0..11).
DaysBeforeMonth(y, m) ==
  IF m = 0 THEN 0 ELSE DaysBeforeMonth(y, m - 1) + DaysInMonth(y, m - 1)

\* ECMAScript MakeDay: the day number of year y, month m (0-based, any integer:
\* months outside 0..11 carry into the year) and day of month d (any integer:
\* days outside the month carry into the neighbouring months).
MakeDay(y, m, d) ==
  LET ym == y + (m \div 12)
      mn == m % 12
  IN DayFromYear(ym) + DaysBeforeMonth(ym, mn) + d - 1

\* ECMAScript YearFromTime, Date.prototype.getFullYear.
GetFullYear(t) ==
  LET guess == 1970 + (t \div 366)
  IN CHOOSE y \in (guess - 1)..(guess + 3) :
       DayFromYear(y) <= t /\ t < DayFromYear(y + 1)

\* ECMAScript MonthFromTime, Date.prototype.getMonth (0-based).
GetMonth(t) ==
  LET y == GetFullYear(t)
      n == t - DayFromYear(y)
  IN CHOOSE m \in 0..11 :
       DaysBeforeMonth(y, m) <= n /\ n < DaysBeforeMonth(y, m) + DaysInMonth(y, m)

\* ECMAScript DateFromTime, Date.prototype.getDate (1-based day of the month).
GetDate(t) ==
  LET y == GetFullYear(t)
  IN t - DayFromYear(y) - DaysBeforeMonth(y, GetMonth(t)) + 1

\* ECMAScript WeekDay, Date.prototype.getDay: 0 is Sunday; 1 January 1970 was a Thursday.
GetDay(t) == (t + 4) % 7

\* Date.prototype.setDate(n): the same year and month, day of the month n (carrying).
SetDate(t, n) == MakeDay(GetFullYear(t), GetMonth(t), n)

\* Date.prototype.setFullYear(y): the same month and day of the month in year y
\* (29 February carries to 1 March in a year that is not a leap year).
SetFullYear(t, y) == MakeDay(y, GetMonth(t), GetDate(t))

\* Date.prototype.toISOString of a valid time value at midnight UTC.
ToISOString(t) ==
  ToString(GetFullYear(t)) \o "-" \o PadStart2(GetMonth(t) + 1) \o "-"
    \o PadStart2(GetDate(t)) \o "T00:00:00.000Z"

\* new Date(isoString), as the list sorting and display read a task's dueDate:
\* the day number of the date an ISO string of a four-digit year names.
DateFromISO(iso) ==
  MakeDay(ParseInt(Substring(iso, 1, 4)), ParseInt(Substring(iso, 6, 7)) - 1,
          ParseInt(Substring(iso, 9, 10)))

(***************************************************************************)
(* Optional values: JavaScript null is the empty tuple, a value v is <<v>>. *)
(***************************************************************************)
Null == <<>>

Some(v) == <<v>>

(***************************************************************************)
(* parseNaturalLanguage, stage 1: category detection.                      *)
(***************************************************************************)
\* The entries of categoryKeywords, in the object's declaration order.
categoryKeywords ==
  << [cat |-> "Work",
      keywords |-> <<"meeting", "presentation", "report", "project", "client",
                     "deadline", "email", "call", "conference">>],
     [cat |-> "Personal",
      keywords |-> <<"birthday", "anniversary", "family", "friend", "party",
                     "dinner", "lunch", "movie">>],
     [cat |-> "Health",
      keywords |-> <<"doctor", "dentist", "gym", "workout", "exercise", "medicine",
                     "appointment", "health", "hospital">>],
     [cat |-> "Finance",
      keywords |-> <<"pay", "bill", "rent", "mortgage", "tax", "invoice", "budget",
                     "bank", "payment">>],
     [cat |-> "Shopping",
      keywords |-> <<"buy", "purchase", "shop", "store", "grocery", "groceries",
                     "mall", "order", "get">>] >>

\* The loop over Object.entries(categoryKeywords) with its break: the first
\* entry one of whose keywords the text includes, 'Other' when there is none.
DetectCategory(lowerText) ==
  LET hits == {k \in 1..Len(categoryKeywords) :
                 SomeIncluded(lowerText, categoryKeywords[k].keywords)}
  IN IF hits = {} THEN "Other"
     ELSE categoryKeywords[CHOOSE k \in hits : \A j \in hits : k <= j].cat

(***************************************************************************)
(* Stage 2: priority detection.                                            *)
(***************************************************************************)
highPriorityKeywords ==
  <<"urgent", "asap", "important", "critical", "immediately", "priority", "must">>

lowPriorityKeywords == <<"maybe", "someday", "eventually", "when possible", "if time">>

DetectPriority(lowerText) ==
  IF SomeIncluded(lowerText, highPriorityKeywords) THEN "High"
  ELSE IF SomeIncluded(lowerText, lowPriorityKeywords) THEN "Low"
  ELSE "Medium"

(***************************************************************************)
(* Stage 3: date parsing.                                                  *)
(***************************************************************************)
\* The array days of the weekday loop; days[i + 1] is the name of getDay() = i.
days == <<"sunday", "monday", "tuesday", "wednesday", "thursday", "friday", "saturday">>

\* RelativeDate with the five phrase rules as separate ifs instead of one
\* if / else-if chain: a later rule that matches overwrites an earlier one.
RelativeDateSeparateIfs(lowerText, t0) ==
  LET hits == {i \in 0..(Len(days) - 1) : Includes(lowerText, days[i + 1])}
      next(target) == LET r == (target - GetDay(t0) + 7) % 7
                      IN SetDate(t0, GetDate(t0) + (IF r = 0 THEN 7 ELSE r))
  IN IF hits # {}
     THEN Some(ToISOString(next(CHOOSE i \in hits : \A j \in hits : i <= j)))
     ELSE IF Includes(lowerText, "weekend") THEN Some(ToISOString(next(6)))
     ELSE IF Includes(lowerText, "next week")
     THEN Some(ToISOString(SetDate(t0, GetDate(t0) + 7)))
     ELSE IF Includes(lowerText, "today") THEN Some(ToISOString(t0))
     ELSE IF Includes(lowerText, "tomorrow")
     THEN Some(ToISOString(SetDate(t0, GetDate(t0) + 1)))
     ELSE Null

\* RelativeDate without the "|| 7" of daysUntilSaturday: on a Saturday the
\* weekend is today.
RelativeDateSaturdayToday(lowerText, t0) ==
  IF Includes(lowerText, "tomorrow")
  THEN Some(ToISOString(SetDate(t0, GetDate(t0) + 1)))
  ELSE IF Includes(lowerText, "today")
  THEN Some(ToISOString(t0))
  ELSE IF Includes(lowerText, "next week")
  THEN Some(ToISOString(SetDate(t0, GetDate(t0) + 7)))
  ELSE IF Includes(lowerText, "weekend") \/ Includes(lowerText, "saturday")
            \/ Includes(lowerText, "sunday")
  THEN LET daysUntilSaturday == (6 - GetDay(t0) + 7) % 7
       IN Some(ToISOString(SetDate(t0, GetDate(t0) + daysUntilSaturday)))
  ELSE LET hits == {i \in 0..(Len(days) - 1) : Includes(lowerText, days[i + 1])}
       IN IF hits = {} THEN Null
          ELSE LET targetDay == CHOOSE i \in hits : \A j \in hits : i <= j
                   r == (targetDay - GetDay(t0) + 7) % 7
                   daysToAdd == IF r = 0 THEN 7 ELSE r
               IN Some(ToISOString(SetDate(t0, GetDate(t0) + daysToAdd)))

\* The if / else-if chain of the relative phrases: tomorrow, today, next week,
\* weekend / saturday / sunday, then the loop over the weekday names with its break.
RelativeDate(lowerText, t0) ==
  IF Includes(lowerText, "tomorrow")
  THEN Some(ToISOString(SetDate(t0, GetDate(t0) + 1)))
  ELSE IF Includes(lowerText, "today")
  THEN Some(ToISOString(t0))
  ELSE IF Includes(lowerText, "next week")
  THEN Some(ToISOString(SetDate(t0, GetDate(t0) + 7)))
  ELSE IF Includes(lowerText, "weekend") \/ Includes(lowerText, "saturday")
            \/ Includes(lowerText, "sunday")
  THEN LET r == (6 - GetDay(t0) + 7) % 7
           daysUntilSaturday == IF r = 0 THEN 7 ELSE r
       IN Some(ToISOString(SetDate(t0, GetDate(t0) + daysUntilSaturday)))
  ELSE LET hits == {i \in 0..(Len(days) - 1) : Includes(lowerText, days[i + 1])}
       IN IF hits = {} THEN Null
          ELSE LET targetDay == CHOOSE i \in hits : \A j \in hits : i <= j
                   r == (targetDay - GetDay(t0) + 7) % 7
                   daysToAdd == IF r = 0 THEN 7 ELSE r
               IN Some(ToISOString(SetDate(t0, GetDate(t0) + daysToAdd)))

\* Whether /in (\d+) days?/ matches s at position i.
InDaysAt(s, i) ==
  /\ StartsAt(s, i, "in ")
  /\ DigitRun(s, i + 3) >= 1
  /\ StartsAt(s, i + 3 + DigitRun(s, i + 3), " day")

\* lowerText.match(/in (\d+) days?/): Null, or, for the first match, the captured
\* digits followed by the matched text (the match array's [1] and [0]).
InDaysMatch(s) ==
  LET at == {i \in 1..Len(s) : InDaysAt(s, i)}
  IN IF at = {} THEN Null
     ELSE LET i == CHOOSE a \in at : \A b \in at : a <= b
              n == DigitRun(s, i + 3)
              e == IF CharAt(s, i + n + 7) = "s" THEN i + n + 7 ELSE i + n + 6
          IN <<Substring(s, i + 3, i + 2 + n), Substring(s, i, e)>>

\* The separator class [/-].
IsDateSep(c) == c = "/" \/ c = "-"

\* Digits group 1 of /(\d{1,2})[/-](\d{1,2})/ takes when the match starts at
\* position i: two if it can (greedy), else one, 0 when there is no match at i.
DateMonthLenAt(s, i) ==
  IF IsDigit(CharAt(s, i)) /\ IsDigit(CharAt(s, i + 1)) /\ IsDateSep(CharAt(s, i + 2))
     /\ IsDigit(CharAt(s, i + 3))
  THEN 2
  ELSE IF IsDigit(CharAt(s, i)) /\ IsDateSep(CharAt(s, i + 1)) /\ IsDigit(CharAt(s, i + 2))
  THEN 1
  ELSE 0

\* text.match(/(\d{1,2})[/-](\d{1,2})/): Null, or, for the first match, the two
\* captured groups followed by the matched text (the match array's [1], [2], [0]).
DateMatch(s) ==
  LET at == {i \in 1..Len(s) : DateMonthLenAt(s, i) > 0}
  IN IF at = {} THEN Null
     ELSE LET i == CHOOSE a \in at : \A b \in at : a <= b
              n == DateMonthLenAt(s, i)
              j == i + n + 1
              k == IF IsDigit(CharAt(s, j + 1)) THEN 2 ELSE 1
          IN <<Substring(s, i, i + n - 1), Substring(s, j, j + k - 1),
               Substring(s, i, j + k - 1)>>

\* The "in X days" block: the Date it builds (setDate on a copy of today).
InDaysDate(m, t0) == SetDate(t0, GetDate(t0) + ParseInt(m[1]))

\* The "specific dates" block: new Date(year, month - 1, day), put one year later
\* when it is before today.
SpecificDate(m, t0) ==
  LET month == ParseInt(m[1]) - 1
      day == ParseInt(m[2])
      specificDate == MakeDay(GetFullYear(t0), month, day)
  IN IF specificDate < t0
     THEN SetFullYear(specificDate, GetFullYear(specificDate) + 1)
     ELSE specificDate

\* The whole date stage.  toISOString throws a RangeError on an Invalid Date,
\* which is what setDate leaves when the day count takes the time value out of
\* range: threw tells whether the stage ends that way, dueDate is its result
\* when it does not.
ParseDate(text, lowerText, t0) ==
  LET afterPhrases == RelativeDate(lowerText, t0)
      inDaysMatch == InDaysMatch(lowerText)
      threw == inDaysMatch # Null /\ ~TimeClipOk(InDaysDate(inDaysMatch, t0))
      afterInDays ==
        IF inDaysMatch # Null THEN Some(ToISOString(InDaysDate(inDaysMatch, t0)))
        ELSE afterPhrases
      dateMatch == DateMatch(text)
      afterDate ==
        IF dateMatch # Null THEN Some(ToISOString(SpecificDate(dateMatch, t0)))
        ELSE afterInDays
  IN [threw |-> threw, dueDate |-> IF threw THEN Null ELSE afterDate]

(***************************************************************************)
(* Stage 4: time parsing.                                                  *)
(***************************************************************************)
\* Whether am or pm, in either case, stands at position i of s.
MeridiemAt(s, i) ==
  LET w == ToLowerCase(Substring(s, i, i + 1)) IN Len(w) = 2 /\ (w = "am" \/ w = "pm")

\* Whether d digits stand at position i of s.
DigitsAt(s, i, d) == \A k \in 0..(d - 1) : IsDigit(CharAt(s, i + k))

\* Whether /(\d{1,2})(?::(\d{2}))?\s*(am|pm)/i matches at position i with d hour
\* digits and, when g, the minutes group.
Time12Try(s, i, d, g) ==
  LET p == i + d + (IF g THEN 3 ELSE 0)
  IN /\ DigitsAt(s, i, d)
     /\ g => (CharAt(s, i + d) = ":" /\ DigitsAt(s, i + d + 1, 2))
     /\ MeridiemAt(s, p + SpaceRun(s, p))

\* The alternatives the regex engine tries at one position, in its order: the
\* longer hour first, the minutes group before its absence.
Time12Order == << <<2, TRUE>>, <<2, FALSE>>, <<1, TRUE>>, <<1, FALSE>> >>

\* text.match(/(\d{1,2})(?::(\d{2}))?\s*(am|pm)/i): Null, or, for the first
\* match, its groups: hour digits, minute digits ("" when the group took no part)
\* and the meridiem as written, followed by the matched text.
Time12Match(s) ==
  LET ok(i) == {k \in 1..Len(Time12Order) :
                  Time12Try(s, i, Time12Order[k][1], Time12Order[k][2])}
      at == {i \in 1..Len(s) : ok(i) # {}}
  IN IF at = {} THEN Null
     ELSE LET i == CHOOSE a \in at : \A b \in at : a <= b
              k == CHOOSE a \in ok(i) : \A b \in ok(i) : a <= b
              d == Time12Order[k][1]
              g == Time12Order[k][2]
              p == i + d + (IF g THEN 3 ELSE 0)
              q == p + SpaceRun(s, p)
          IN <<Substring(s, i, i + d - 1),
               IF g THEN Substring(s, i + d + 1, i + d + 2) ELSE "",
               Substring(s, q, q + 1),
               Substring(s, i, q + 1)>>

\* Hour digits of /(\d{1,2}):(\d{2})/ when the match starts at position i, 0
\* when there is no match at i.
Time24LenAt(s, i) ==
  IF DigitsAt(s, i, 2) /\ CharAt(s, i + 2) = ":" /\ DigitsAt(s, i + 3, 2) THEN 2
  ELSE IF DigitsAt(s, i, 1) /\ CharAt(s, i + 1) = ":" /\ DigitsAt(s, i + 2, 2) THEN 1
  ELSE 0

\* text.match(/(\d{1,2}):(\d{2})/): Null, or, for the first match, its two groups
\* followed by the matched text.
Time24Match(s) ==
  LET at == {i \in 1..Len(s) : Time24LenAt(s, i) > 0}
  IN IF at = {} THEN Null
     ELSE LET i == CHOOSE a \in at : \A b \in at : a <= b
              d == Time24LenAt(s, i)
          IN <<Substring(s, i, i + d - 1), Substring(s, i + d + 1, i + d + 2),
               Substring(s, i, i + d + 2)>>

\* The template `${hours.padStart(2,'0')}:${minutes.padStart(2,'0')}`.
FormatTime(hours, minutes) == PadStart2(hours) \o ":" \o PadStart2(minutes)

\* The 12-hour block: the dueTime it assigns for a match m.
Time12Value(m) ==
  LET h0 == ParseInt(m[1])
      minutes == IF m[2] # "" THEN ParseInt(m[2]) ELSE 0
      meridiem == ToLowerCase(m[3])
      h1 == IF meridiem = "pm" /\ h0 # 12 THEN h0 + 12 ELSE h0
      hours == IF meridiem = "am" /\ h1 = 12 THEN 0 ELSE h1
  IN FormatTime(hours, minutes)

\* The 12-hour and 24-hour blocks: dueTime before the time words are looked at.
NumericTime(text) ==
  LET time12Match == Time12Match(text)
      after12 == IF time12Match # Null THEN Some(Time12Value(time12Match)) ELSE Null
      time24Match == Time24Match(text)
  IN IF time24Match # Null /\ time12Match = Null
     THEN LET hours == ParseInt(time24Match[1])
              minutes == ParseInt(time24Match[2])
          IN IF hours >= 0 /\ hours < 24 /\ minutes >= 0 /\ minutes < 60
             THEN Some(FormatTime(hours, minutes))
             ELSE after12
     ELSE after12

\* The else-if chain of the word-based times, applied to the dueTime so far.
WordTime(lowerText, dueTime) ==
  IF Includes(lowerText, "noon") THEN Some("12:00")
  ELSE IF Includes(lowerText, "midnight") THEN Some("00:00")
  ELSE IF Includes(lowerText, "morning") THEN Some("09:00")
  ELSE IF Includes(lowerText, "afternoon") THEN Some("14:00")
  ELSE IF Includes(lowerText, "evening") THEN Some("18:00")
  ELSE IF Includes(lowerText, "night") THEN Some("20:00")
  ELSE dueTime

\* The whole time stage.
ParseTime(text, lowerText) == WordTime(lowerText, NumericTime(text))

(***************************************************************************)
(* Stage 5: recurring pattern detection.                                   *)
(***************************************************************************)
DetectRecurring(lowerText) ==
  IF Includes(lowerText, "every day") \/ Includes(lowerText, "daily") THEN "daily"
  ELSE IF Includes(lowerText, "every week") \/ Includes(lowerText, "weekly") THEN "weekly"
  ELSE IF Includes(lowerText, "every month") \/ Includes(lowerText, "monthly")
  THEN "monthly"
  ELSE "none"

(***************************************************************************)
(* Stage 6: clean title.  Every replace is global and case-insensitive:    *)
(* the matcher reads the lower-cased text ls, the result keeps the         *)
(* characters of the text s itself.                                        *)
(***************************************************************************)
\* The alternatives of the three \b(...)\b patterns that are plain words.
priorityWords == <<"urgent", "asap", "important", "critical", "immediately", "priority">>

dateWords == <<"tomorrow", "today", "next week", "this weekend">>

recurringWords == <<"every day", "daily", "every week", "weekly", "every month", "monthly">>

\* Length of the match of \b(w1|w2|...)\b at position i of ls: the first
\* alternative, in their order, that stands there between two word boundaries.
WordsLenAt(ls, i, words) ==
  LET ok == {k \in 1..Len(words) :
               StartsAt(ls, i, words[k]) /\ WordBoundary(ls, i + Len(words[k]))}
  IN IF WordBoundary(ls, i) /\ ok # {}
     THEN Len(words[CHOOSE k \in ok : \A j \in ok : k <= j])
     ELSE 0

\* Length of the match of the alternative \bin \d+ days?\b at position i of ls.
InDaysLenAt(ls, i) ==
  LET n == 7 + DigitRun(ls, i + 3)
  IN IF WordBoundary(ls, i) /\ InDaysAt(ls, i)
     THEN IF CharAt(ls, i + n) = "s" /\ WordBoundary(ls, i + n + 1) THEN n + 1
          ELSE IF WordBoundary(ls, i + n) THEN n
          ELSE 0
     ELSE 0

\* Length of the match of /\d{1,2}:\d{2}\s*(am|pm)?/ at position i of ls.
ColonTimeLenAt(ls, i) ==
  LET d == Time24LenAt(ls, i)
      p == i + d + 3
      q == p + SpaceRun(ls, p)
  IN IF d = 0 THEN 0
     ELSE IF MeridiemAt(ls, q) THEN q + 2 - i
     ELSE q - i

\* Length of the match of /\d{1,2}\s*(am|pm)/ at position i of ls.
HourTimeLenAt(ls, i) ==
  LET q2 == i + 2 + SpaceRun(ls, i + 2)
      q1 == i + 1 + SpaceRun(ls, i + 1)
  IN IF DigitsAt(ls, i, 2) /\ MeridiemAt(ls, q2) THEN q2 + 2 - i
     ELSE IF DigitsAt(ls, i, 1) /\ MeridiemAt(ls, q1) THEN q1 + 2 - i
     ELSE 0

\* Length of the match of /\bat\s+/ or /\bon\s+/ (word is "at" or "on") at position i.
PrepositionLenAt(ls, i, word) ==
  IF WordBoundary(ls, i) /\ StartsAt(ls, i, word) /\ SpaceRun(ls, i + 2) >= 1
  THEN 2 + SpaceRun(ls, i + 2)
  ELSE 0

\* Length of the match, at position i of ls, of the pattern of one replace call
\* of the chain (0: no match there).
PatternLenAt(pat, ls, i) ==
  CASE pat = "priority" -> WordsLenAt(ls, i, priorityWords)
    [] pat = "date" ->
         IF WordsLenAt(ls, i, dateWords) > 0 THEN WordsLenAt(ls, i, dateWords)
         ELSE InDaysLenAt(ls, i)
    [] pat = "colonTime" -> ColonTimeLenAt(ls, i)
    [] pat = "hourTime" -> HourTimeLenAt(ls, i)
    [] pat = "at" -> PrepositionLenAt(ls, i, "at")
    [] pat = "on" -> PrepositionLenAt(ls, i, "on")
    [] pat = "recurring" -> WordsLenAt(ls, i, recurringWords)
    [] pat = "spaces" -> SpaceRun(ls, i)

RECURSIVE ReplaceFrom(_, _, _, _, _)
\* The part of s.replace(/pat/gi, rep) that comes from position i of s on: the
\* scan goes left to right and resumes after each match.
ReplaceFrom(pat, s, ls, i, rep) ==
  IF i > Len(s) THEN ""
  ELSE LET n == PatternLenAt(pat, ls, i)
       IN IF n > 0 THEN rep \o ReplaceFrom(pat, s, ls, i + n, rep)
          ELSE CharAt(s, i) \o ReplaceFrom(pat, s, ls, i + 1, rep)

\* String.prototype.replace with a global, case-insensitive pattern.
Replace(pat, s, rep) == ReplaceFrom(pat, s, ToLowerCase(s), 1, rep)

RECURSIVE TrimEnd(_)
TrimEnd(s) ==
  IF s # "" /\ IsSpace(CharAt(s, Len(s))) THEN TrimEnd(Substring(s, 1, Len(s) - 1)) ELSE s

\* String.prototype.trim
Trim(s) == TrimEnd(Slice(s, 1 + SpaceRun(s, 1)))

\* The replace chain and the capital first letter.
CleanTitle(text) ==
  LET r1 == Replace("priority", text, "")
      r2 == Replace("date", r1, "")
      r3 == Replace("colonTime", r2, "")
      r4 == Replace("hourTime", r3, "")
      r5 == Replace("at", r4, "")
      r6 == Replace("on", r5, "")
      r7 == Replace("recurring", r6, "")
      r8 == Replace("spaces", r7, " ")
      title == Trim(r8)
  IN UpperChar(CharAt(title, 1)) \o Slice(title, 2)

(***************************************************************************)
(* parseNaturalLanguage as a whole: the record it returns, or the error    *)
(* it throws.                                                              *)
(***************************************************************************)
parseNaturalLanguage(text, t0) ==
  LET lowerText == ToLowerCase(text)
      date == ParseDate(text, lowerText, t0)
  IN IF date.threw
     THEN [kind |-> "throw", error |-> "RangeError"]
     ELSE [kind |-> "return",
           title |-> CleanTitle(text),
           category |-> DetectCategory(lowerText),
           priority |-> DetectPriority(lowerText),
           dueDate |-> date.dueDate,
           dueTime |-> ParseTime(text, lowerText),
           recurring |-> DetectRecurring(lowerText)]

(***************************************************************************)
(* The inputs: what the user typed and what the clock reads.               *)
(***************************************************************************)
\* Phrases the input texts are built of: each date rule, each time pattern and
\* time word, keywords of every category, priority and recurrence, the two
\* prepositions the title cleaner removes, a plain word and the empty phrase.
PhraseList ==
  << "", "x", "at", "on",
     "tomorrow", "Today", "next week", "this weekend", "sunday", "monday",
     "in 3 days", "in 99999999 days", "12/25", "12-1", "0/1", "2/29",
     "3pm", "12:30 AM", "25pm", "3:75pm", "15:30", "25:00",
     "noon", "midnight", "morning", "afternoon", "evening", "tonight",
     "Meeting", "party", "gym", "budget", "get",
     "URGENT", "must", "maybe",
     "daily", "every week",
     "monthly", "friday", "asap", "4 pm", "if time" >>

Vocabulary ==
  {PhraseList[k] :
     k \in 1..(IF NumPhrases < Len(PhraseList) THEN NumPhrases ELSE Len(PhraseList))}

\* What the user may have typed: nothing, one phrase, or two phrases with a
\* space between them.
Texts == {""} \cup Vocabulary \cup {a \o " " \o b : a, b \in Vocabulary}

\* Days the clock may read, as <<year, month (1-based), day>>: a Monday and a
\* Saturday in December, the day after a 29 February, a 1 January, then a
\* Sunday, a Friday and a Tuesday (so that the first seven cover every day of
\* the week), and on.
TodayList ==
  << <<2025, 12, 15>>, <<2028, 3, 1>>, <<2025, 12, 20>>, <<2026, 1, 1>>,
     <<2027, 2, 28>>, <<2026, 8, 14>>, <<2026, 6, 9>>, <<2026, 12, 31>>,
     <<2026, 7, 5>>, <<2026, 9, 3>> >>

\* new Date() followed by setHours(0, 0, 0, 0): the day number of today.
Todays ==
  {MakeDay(TodayList[k][1], TodayList[k][2] - 1, TodayList[k][3]) :
     k \in 1..(IF NumTodays < Len(TodayList) THEN NumTodays ELSE Len(TodayList))}

(***************************************************************************)
(* The state machine: a text and a clock reading, then one call of the     *)
(* parser.                                                                 *)
(***************************************************************************)
Pending == [kind |-> "pending"]

\* The component before it is mounted, nothing stored.
NotMounted ==
  /\ mounted = FALSE
  /\ tasks = <<>>
  /\ editingTask = Null
  /\ editText = ""
  /\ queued = Null
  /\ effects = <<>>
  /\ clock = 0
  /\ savedAtMount = Null

Init ==
  /\ inputText \in Texts
  /\ today \in Todays
  /\ result = Pending
  /\ store = Null
  /\ NotMounted

\* parseNaturalLanguage(inputText) with the clock reading today.
Parse ==
  /\ result = Pending
  /\ result' = parseNaturalLanguage(inputText, today)
  /\ UNCHANGED <<inputText, today, appVars>>

Next == Parse

Spec == Init /\ [][Next]_vars

(***************************************************************************)
(* The App component: clock readings and the JSON text of the task list.   *)
(* A number of the size of Date.now() is a pair <<n \div 100000,           *)
(* n % 100000>>.                                                           *)
(***************************************************************************)
\* Date.now() at ms milliseconds past the midnight of the day t0: the
\* milliseconds since 1970-01-01 (a day has 864 * 100000 of them).
DateNow(t0, ms) == <<t0 * 864 + ms \div 100000, ms % 100000>>

RECURSIVE PadStart(_, _)
\* String.prototype.padStart(width, '0').
PadStart(str, width) == IF Len(str) >= width THEN str ELSE PadStart("0" \o str, width)

\* new Date().toISOString() at ms milliseconds past the midnight of the day t0.
ToISOStringAt(t0, ms) ==
  Substring(ToISOString(t0), 1, 11)
    \o PadStart2(ms \div 3600000) \o ":" \o PadStart2((ms \div 60000) % 60) \o ":"
    \o PadStart2((ms \div 1000) % 60) \o "." \o PadStart(ToString(ms % 1000), 3) \o "Z"

\* The decimal text of a number, and the number of a decimal text.
NumberToString(n) ==
  IF n[1] = 0 THEN ToString(n[2]) ELSE ToString(n[1]) \o PadStart(ToString(n[2]), 5)

StringToNumber(ds) ==
  IF Len(ds) <= 5 THEN <<0, ParseInt(ds)>>
  ELSE <<ParseInt(Substring(ds, 1, Len(ds) - 5)), ParseInt(Substring(ds, Len(ds) - 4, Len(ds)))>>

RECURSIVE EscapeJSON(_)
\* The characters of a string as JSON.stringify writes them between quotes: a
\* quote and a backslash get a backslash before them.
EscapeJSON(str) ==
  IF \A i \in 1..Len(str) : CharAt(str, i) \notin {"\"", "\\"} THEN str
  ELSE (IF Head(str) = "\"" THEN "\\\""
        ELSE IF Head(str) = "\\" THEN "\\\\"
        ELSE Head(str)) \o EscapeJSON(Tail(str))

Quote(str) == "\"" \o EscapeJSON(str) \o "\""

\* JSON.stringify of a value that is null or a string.
OptionalToJSON(v) == IF v = Null THEN "null" ELSE Quote(v[1])

\* JSON.stringify of a task: its properties in the order they were created.
TaskToJSON(task) ==
  "{\"id\":" \o NumberToString(task.id)
    \o ",\"title\":" \o Quote(task.title)
    \o ",\"category\":" \o Quote(task.category)
    \o ",\"priority\":" \o Quote(task.priority)
    \o ",\"dueDate\":" \o OptionalToJSON(task.dueDate)
    \o ",\"dueTime\":" \o OptionalToJSON(task.dueTime)
    \o ",\"recurring\":" \o Quote(task.recurring)
    \o ",\"completed\":" \o (IF task.completed THEN "true" ELSE "false")
    \o ",\"createdAt\":" \o Quote(task.createdAt)
    \o "}"

RECURSIVE JoinTasks(_)
JoinTasks(list) ==
  IF list = <<>> THEN ""
  ELSE TaskToJSON(Head(list)) \o (IF Len(list) > 1 THEN "," ELSE "") \o JoinTasks(Tail(list))

\* JSON.stringify(tasks).
JSONStringify(list) == "[" \o JoinTasks(list) \o "]"

RECURSIVE StringEnd(_, _)
\* The position of the quote that closes the JSON string whose characters
\* start at position i.
StringEnd(s, i) ==
  IF i > Len(s) \/ CharAt(s, i) = "\"" THEN i
  ELSE IF CharAt(s, i) = "\\" THEN StringEnd(s, i + 2)
  ELSE StringEnd(s, i + 1)

RECURSIVE UnescapeJSON(_)
UnescapeJSON(str) ==
  IF \A i \in 1..Len(str) : CharAt(str, i) # "\\" THEN str
  ELSE IF Head(str) = "\\" THEN CharAt(str, 2) \o UnescapeJSON(Slice(str, 3))
  ELSE Head(str) \o UnescapeJSON(Tail(str))

\* The readers of JSON.parse: each reads the value that starts at position i of
\* the text s and gives <<the value, the position after it>>.
ReadString(s, i) ==
  LET e == StringEnd(s, i + 1)
  IN <<UnescapeJSON(Substring(s, i + 1, e - 1)), e + 1>>

ReadNumber(s, i) ==
  <<StringToNumber(Substring(s, i, i + DigitRun(s, i) - 1)), i + DigitRun(s, i)>>

ReadOptional(s, i) ==
  IF StartsAt(s, i, "null") THEN <<Null, i + 4>>
  ELSE <<Some(ReadString(s, i)[1]), ReadString(s, i)[2]>>

ReadBoolean(s, i) == IF StartsAt(s, i, "true") THEN <<TRUE, i + 4>> ELSE <<FALSE, i + 5>>

\* The task object that starts at position i.
ReadTask(s, i) ==
  LET id == ReadNumber(s, i + Len("{\"id\":"))
      title == ReadString(s, id[2] + Len(",\"title\":"))
      category == ReadString(s, title[2] + Len(",\"category\":"))
      priority == ReadString(s, category[2] + Len(",\"priority\":"))
      dueDate == ReadOptional(s, priority[2] + Len(",\"dueDate\":"))
      dueTime == ReadOptional(s, dueDate[2] + Len(",\"dueTime\":"))
      recurring == ReadString(s, dueTime[2] + Len(",\"recurring\":"))
      completed == ReadBoolean(s, recurring[2] + Len(",\"completed\":"))
      createdAt == ReadString(s, completed[2] + Len(",\"createdAt\":"))
  IN <<[id |-> id[1], title |-> title[1], category |-> category[1],
        priority |-> priority[1], dueDate |-> dueDate[1], dueTime |-> dueTime[1],
        recurring |-> recurring[1], completed |-> completed[1],
        createdAt |-> createdAt[1]],
       createdAt[2] + 1>>

RECURSIVE ReadTasks(_, _)
\* The task objects from position i to the closing bracket.
ReadTasks(s, i) ==
  IF i > Len(s) \/ CharAt(s, i) = "]" THEN <<>>
  ELSE LET task == ReadTask(s, i)
       IN <<task[1]>>
            \o ReadTasks(s, IF CharAt(s, task[2]) = "," THEN task[2] + 1 ELSE task[2])

\* JSON.parse of the text of a task list.
JSONParse(s) == ReadTasks(s, 2)

(***************************************************************************)
(* The App component: mount, effects, render, handlers.                    *)
(***************************************************************************)
\* What the user types into the input field: a task, and a text the parser
\* throws on.
AppTexts == {"gym tomorrow 3pm", "in 99999999 days"}

\* What the user types into the title field of a task being edited.
EditTexts == {"y ", " "}

\* MountEffects with a persist effect declared before the load effect.
MountEffectsPersistFirst == <<"persistTasks", "loadTasks", "persistTasks">>

\* The effects of the first render, in the order of their useEffect calls.
MountEffects == <<"loadTasks", "persistTasks", "persistTasks">>

\* The effects of a later render: those whose dependency [tasks] changed.
UpdateEffects == <<"persistTasks", "persistTasks">>

\* Nothing is left to run or to render.
Settled == mounted /\ effects = <<>> /\ queued = Null

\* Whether a task row shows its title field: editingTask === task.id.
Editing == editingTask # Null /\ \E k \in 1..Len(tasks) : tasks[k].id = editingTask[1]

AppInit ==
  /\ inputText = ""
  /\ today = MakeDay(TodayList[1][1], TodayList[1][2] - 1, TodayList[1][3])
  /\ result = Pending
  /\ store = Null
  /\ NotMounted

\* The page is opened: the first render, with the initial state of every hook.
Mount ==
  /\ ~mounted
  /\ mounted' = TRUE
  /\ tasks' = <<>>
  /\ inputText' = ""
  /\ editingTask' = Null
  /\ editText' = ""
  /\ queued' = Null
  /\ effects' = MountEffects
  /\ savedAtMount' = store
  /\ UNCHANGED <<today, result, store, clock>>

\* The load effect.
LoadEffect ==
  /\ mounted
  /\ effects # <<>>
  /\ Head(effects) = "loadTasks"
  /\ LET savedTasks == store
     IN queued' = IF savedTasks # Null /\ savedTasks[1] # ""
                  THEN Some(JSONParse(savedTasks[1]))
                  ELSE queued
  /\ effects' = Tail(effects)
  /\ UNCHANGED <<inputText, today, result, mounted, tasks, editingTask, editText,
                 store, clock, savedAtMount>>

\* One of the two persist effects.
PersistEffect ==
  /\ mounted
  /\ effects # <<>>
  /\ Head(effects) = "persistTasks"
  /\ store' = Some(JSONStringify(tasks))
  /\ effects' = Tail(effects)
  /\ UNCHANGED <<inputText, today, result, mounted, tasks, editingTask, editText,
                 queued, clock, savedAtMount>>

\* The render that follows setTasks: every list handed to setTasks is a new
\* array, so the dependency [tasks] has changed.
Render ==
  /\ mounted
  /\ effects = <<>>
  /\ queued # Null
  /\ tasks' = queued[1]
  /\ queued' = Null
  /\ effects' = UpdateEffects
  /\ UNCHANGED <<inputText, today, result, mounted, editingTask, editText,
                 store, clock, savedAtMount>>

\* onChange of the input field.
SetInputText ==
  /\ Settled
  /\ \E text \in AppTexts : inputText' = text
  /\ UNCHANGED <<today, result, appVars>>

\* The task handleAddTask makes of what the parser returned, at ms
\* milliseconds past the midnight of the day t0.
NewTask(parsedData, t0, ms) ==
  [id |-> DateNow(t0, ms),
   title |-> parsedData.title,
   category |-> parsedData.category,
   priority |-> parsedData.priority,
   dueDate |-> parsedData.dueDate,
   dueTime |-> parsedData.dueTime,
   recurring |-> parsedData.recurring,
   completed |-> FALSE,
   createdAt |-> ToISOStringAt(t0, ms)]

\* What handleAddTask hands to setTasks: nothing when the parser threw.
AddedTo(list, parsedData, t0, ms) ==
  IF parsedData.kind = "return" THEN Some(Append(list, NewTask(parsedData, t0, ms)))
  ELSE Null

handleAddTask ==
  /\ Settled
  /\ Len(tasks) < MaxTasks
  /\ Trim(inputText) # ""
  /\ queued' = AddedTo(tasks, parseNaturalLanguage(inputText, today), today, clock)
  /\ queued' # Null
  /\ inputText' = ""
  /\ savedAtMount' = Null
  /\ UNCHANGED <<today, result, mounted, tasks, editingTask, editText, effects,
                 store, clock>>

startEdit ==
  /\ Settled
  /\ \E k \in 1..Len(tasks) :
       /\ editingTask' = Some(tasks[k].id)
       /\ editText' = tasks[k].title
  /\ UNCHANGED <<inputText, today, result, mounted, tasks, queued, effects, store,
                 clock, savedAtMount>>

\* onChange of the title field.
SetEditText ==
  /\ Settled
  /\ Editing
  /\ \E text \in EditTexts : editText' = text
  /\ UNCHANGED <<inputText, today, result, mounted, tasks, editingTask, queued,
                 effects, store, clock, savedAtMount>>

saveEdit ==
  /\ Settled
  /\ Editing
  /\ Trim(editText) # ""
  /\ queued' = Some([k \in 1..Len(tasks) |->
                       IF tasks[k].id = editingTask[1]
                       THEN [tasks[k] EXCEPT !.title = Trim(editText)]
                       ELSE tasks[k]])
  /\ editingTask' = Null
  /\ editText' = ""
  /\ savedAtMount' = Null
  /\ UNCHANGED <<inputText, today, result, mounted, tasks, effects, store, clock>>

cancelEdit ==
  /\ Settled
  /\ Editing
  /\ editingTask' = Null
  /\ editText' = ""
  /\ UNCHANGED <<inputText, today, result, mounted, tasks, queued, effects, store,
                 clock, savedAtMount>>

\* tasks.map(...) of toggleComplete(id).
Toggled(list, id) ==
  [k \in 1..Len(list) |->
     IF list[k].id = id THEN [list[k] EXCEPT !.completed = ~list[k].completed]
     ELSE list[k]]

toggleComplete ==
  /\ Settled
  /\ \E k \in 1..Len(tasks) : queued' = Some(Toggled(tasks, tasks[k].id))
  /\ savedAtMount' = Null
  /\ UNCHANGED <<inputText, today, result, mounted, tasks, editingTask, editText,
                 effects, store, clock>>

\* tasks.filter(...) of deleteTask(id).
Without(list, id) == SelectSeq(list, LAMBDA task : task.id # id)

deleteTask ==
  /\ Settled
  /\ \E k \in 1..Len(tasks) : queued' = Some(Without(tasks, tasks[k].id))
  /\ savedAtMount' = Null
  /\ UNCHANGED <<inputText, today, result, mounted, tasks, editingTask, editText,
                 effects, store, clock>>

\* A millisecond passes.
Tick ==
  /\ clock < MaxClock
  /\ clock' = clock + 1
  /\ UNCHANGED <<inputText, today, result, mounted, tasks, editingTask, editText,
                 queued, effects, store, savedAtMount>>

\* The page is closed or reloaded: the component and its state are gone, the
\* store stays.
Reload ==
  /\ mounted
  /\ mounted' = FALSE
  /\ tasks' = <<>>
  /\ inputText' = ""
  /\ editingTask' = Null
  /\ editText' = ""
  /\ queued' = Null
  /\ effects' = <<>>
  /\ savedAtMount' = Null
  /\ UNCHANGED <<today, result, store, clock>>

AppNext ==
  \/ Mount
  \/ LoadEffect
  \/ PersistEffect
  \/ Render
  \/ SetInputText
  \/ handleAddTask
  \/ startEdit
  \/ SetEditText
  \/ saveEdit
  \/ cancelEdit
  \/ toggleComplete
  \/ deleteTask
  \/ Tick
  \/ Reload

AppSpec == AppInit /\ [][AppNext]_vars

(***************************************************************************)
(* Properties.  The seven date rules, as the specification numbers them.   *)
(***************************************************************************)
DateRules == 1..7

\* Whether date rule k matches the text.
DateRuleMatches(k, text) ==
  LET l == ToLowerCase(text)
  IN CASE k = 1 -> Includes(l, "tomorrow")
       [] k = 2 -> Includes(l, "today")
       [] k = 3 -> Includes(l, "next week")
       [] k = 4 -> Includes(l, "weekend") \/ Includes(l, "saturday") \/ Includes(l, "sunday")
       [] k = 5 -> \E i \in 1..Len(days) : Includes(l, days[i])
       [] k = 6 -> InDaysMatch(l) # Null
       [] k = 7 -> DateMatch(text) # Null

\* Days from t0 to the next day after t0 whose weekday is target.
DaysUntil(target, t0) ==
  LET r == (target - GetDay(t0) + 7) % 7 IN IF r = 0 THEN 7 ELSE r

\* The day number date rule k computes for a text it matches.
DateRuleDay(k, text, t0) ==
  LET l == ToLowerCase(text)
  IN CASE k = 1 -> t0 + 1
       [] k = 2 -> t0
       [] k = 3 -> t0 + 7
       [] k = 4 -> t0 + DaysUntil(6, t0)
       [] k = 5 -> t0 + DaysUntil(CHOOSE i \in 0..6 :
                                    /\ Includes(l, days[i + 1])
                                    /\ \A j \in 0..(i - 1) : ~Includes(l, days[j + 1]),
                                  t0)
       [] k = 6 -> t0 + ParseInt(InDaysMatch(l)[1])
       [] k = 7 -> SpecificDate(DateMatch(text), t0)

MatchingDateRules(text) == {k \in DateRules : DateRuleMatches(k, text)}

\* The greatest and the least element of a non-empty set of numbers.
MaxOf(S) == CHOOSE k \in S : \A j \in S : j <= k

MinOf(S) == CHOOSE k \in S : \A j \in S : k <= j

Returned == result # Pending /\ result.kind = "return"

Threw == result # Pending /\ result.kind = "throw"

\* Whether the text's "in N days" takes the date out of the range of Date.
InDaysOutOfRange(text, t0) ==
  /\ DateRuleMatches(6, text)
  /\ ~TimeClipOk(t0 + ParseInt(InDaysMatch(ToLowerCase(text))[1]))

DecidingDateRule(text) ==
  LET ms == MatchingDateRules(text)
  IN IF 7 \in ms THEN 7 ELSE IF 6 \in ms THEN 6 ELSE MinOf(ms)

C2_PatternsOverridePhrases ==
  result # Pending =>
    /\ DateRuleMatches(7, inputText) =>
         /\ Returned
         /\ result.dueDate = Some(ToISOString(DateRuleDay(7, inputText, today)))
    /\ (DateRuleMatches(6, inputText) /\ ~DateRuleMatches(7, inputText)) =>
         /\ Returned
         /\ result.dueDate = Some(ToISOString(DateRuleDay(6, inputText, today)))

\* C2, on the calls that return: the same override of every relative phrase.
C2_WhenReturned ==
  Returned =>
    /\ DateRuleMatches(7, inputText) =>
         result.dueDate = Some(ToISOString(DateRuleDay(7, inputText, today)))
    /\ (DateRuleMatches(6, inputText) /\ ~DateRuleMatches(7, inputText)) =>
         result.dueDate = Some(ToISOString(DateRuleDay(6, inputText, today)))

\* The time words in the order of the else-if chain, each with its time.
TimeWords ==
  << <<"noon", "12:00">>, <<"midnight", "00:00">>, <<"morning", "09:00">>,
     <<"afternoon", "14:00">>, <<"evening", "18:00">>, <<"night", "20:00">> >>

TimeWordsIn(text) == {k \in 1..Len(TimeWords) : Includes(ToLowerCase(text), TimeWords[k][1])}

\* C3: word-based times override numeric times: after the parse of a text that
\* contains a time word, dueTime is the time of a time word the text contains
\* (the first one in the order noon, midnight, morning, afternoon, evening,
\* night), whatever numeric time the text holds.
C3_TimeWordOverridesNumeric ==
  (result # Pending /\ TimeWordsIn(inputText) # {})
    => /\ Returned
       /\ result.dueTime = Some(TimeWords[MinOf(TimeWordsIn(inputText))][2])

\* C3, on the calls that return.
C3_WhenReturned ==
  (Returned /\ TimeWordsIn(inputText) # {})
    => result.dueTime = Some(TimeWords[MinOf(TimeWordsIn(inputText))][2])

\* The categories that have a trigger word in the text, as positions in the
\* order Work, Personal, Health, Finance, Shopping.
CategoriesIn(text) ==
  {k \in 1..Len(categoryKeywords) :
     \E j \in 1..Len(categoryKeywords[k].keywords) :
       Includes(ToLowerCase(text), categoryKeywords[k].keywords[j])}

CategoryOrder == <<"Work", "Personal", "Health", "Finance", "Shopping">>

\* The category C4 states for a text.
ExpectedCategory(text) ==
  IF CategoriesIn(text) = {} THEN "Other" ELSE CategoryOrder[MinOf(CategoriesIn(text))]

\* C4: for every input the parser returns exactly one category: the first of
\* Work, Personal, Health, Finance, Shopping with a trigger word in the
\* lower-cased text, Other exactly when there is none; never absent.
C4_FirstCategoryOrOther ==
  result # Pending =>
    /\ Returned
    /\ result.category = ExpectedCategory(inputText)
    /\ result.category \in {"Work", "Personal", "Health", "Finance", "Shopping", "Other"}

\* C4, on the calls that return.
C4_WhenReturned ==
  Returned =>
    /\ result.category = ExpectedCategory(inputText)
    /\ result.category \in {"Work", "Personal", "Health", "Finance", "Shopping", "Other"}

\* The priority C5 states for a text.
ExpectedPriority(text) ==
  LET l == ToLowerCase(text)
  IN IF \E k \in 1..Len(highPriorityKeywords) : Includes(l, highPriorityKeywords[k])
     THEN "High"
     ELSE IF \E k \in 1..Len(lowPriorityKeywords) : Includes(l, lowPriorityKeywords[k])
     THEN "Low"
     ELSE "Medium"

\* C5: for every input the returned priority is High if a high trigger word
\* occurs (also beside a low one), else Low if a low one occurs, else Medium;
\* never absent.
C5_HighThenLowThenMedium ==
  result # Pending =>
    /\ Returned
    /\ result.priority = ExpectedPriority(inputText)

\* C5, on the calls that return.
C5_WhenReturned == Returned => result.priority = ExpectedPriority(inputText)

\* Whether the text has a character that is not white space.
HasNonSpace(text) == \E i \in 1..Len(text) : ~IsSpace(CharAt(text, i))

\* C6: the returned title is never empty when the input has a character that
\* is not white space.
C6_TitleNeverEmpty ==
  (Returned /\ HasNonSpace(inputText)) => Len(result.title) >= 1

\* The fragments of the text (lower-cased) that the priority, date, time and
\* recurrence stages derived their fields from.
ConsumedFragments(text, t0) ==
  LET l == ToLowerCase(text)
      ms == MatchingDateRules(text)
      rule == IF ms = {} THEN 0 ELSE DecidingDateRule(text)
      priorityWordsHit ==
        IF ExpectedPriority(text) = "High"
        THEN {highPriorityKeywords[k] : k \in {j \in 1..Len(highPriorityKeywords) :
                                                 Includes(l, highPriorityKeywords[j])}}
        ELSE IF ExpectedPriority(text) = "Low"
        THEN {lowPriorityKeywords[k] : k \in {j \in 1..Len(lowPriorityKeywords) :
                                                Includes(l, lowPriorityKeywords[j])}}
        ELSE {}
      dateHit ==
        CASE rule = 0 -> {}
          [] rule = 1 -> {"tomorrow"}
          [] rule = 2 -> {"today"}
          [] rule = 3 -> {"next week"}
          [] rule = 4 -> {w \in {"weekend", "saturday", "sunday"} : Includes(l, w)}
          [] rule = 5 -> {days[MinOf({k \in 1..Len(days) : Includes(l, days[k])})]}
          [] rule = 6 -> {InDaysMatch(l)[2]}
          [] rule = 7 -> {DateMatch(text)[3]}
      timeHit ==
        IF TimeWordsIn(text) # {} THEN {TimeWords[MinOf(TimeWordsIn(text))][1]}
        ELSE IF Time12Match(text) # Null THEN {ToLowerCase(Time12Match(text)[4])}
        ELSE IF Time24Match(text) # Null /\ NumericTime(text) # Null
        THEN {Time24Match(text)[3]}
        ELSE {}
      recurringHit ==
        CASE DetectRecurring(l) = "daily" -> {w \in {"every day", "daily"} : Includes(l, w)}
          [] DetectRecurring(l) = "weekly" ->
               {w \in {"every week", "weekly"} : Includes(l, w)}
          [] DetectRecurring(l) = "monthly" ->
               {w \in {"every month", "monthly"} : Includes(l, w)}
          [] OTHER -> {}
  IN priorityWordsHit \cup dateHit \cup timeHit \cup recurringHit

\* C7: the returned title contains none of the fragments of the input that the
\* priority, date, time or recurrence stage matched.
C7_TitleHasNoConsumedFragment ==
  Returned =>
    \A f \in ConsumedFragments(inputText, today) : ~Includes(ToLowerCase(result.title), f)

\* C8: the parser is total: every call returns, none throws; for the empty
\* text it returns category Other, priority Medium, no dueDate, no dueTime,
\* recurring none and the empty title.
C8_ParserIsTotal ==
  result # Pending =>
    /\ Returned
    /\ inputText = "" =>
         result = [kind |-> "return", title |-> "", category |-> "Other",
                   priority |-> "Medium", dueDate |-> Null, dueTime |-> Null,
                   recurring |-> "none"]

\* Whether a string is a time of day HH:MM with HH in 00..23 and MM in 00..59.
IsTimeOfDay(str) ==
  /\ Len(str) = 5
  /\ IsDigit(CharAt(str, 1)) /\ IsDigit(CharAt(str, 2))
  /\ CharAt(str, 3) = ":"
  /\ IsDigit(CharAt(str, 4)) /\ IsDigit(CharAt(str, 5))
  /\ ParseInt(Substring(str, 1, 2)) <= 23
  /\ ParseInt(Substring(str, 4, 5)) <= 59

\* C9: whenever dueTime is present it is a valid time of day HH:MM, 00 <= HH <= 23
\* and 00 <= MM <= 59.
C9_DueTimeIsTimeOfDay ==
  (Returned /\ result.dueTime # Null) => IsTimeOfDay(result.dueTime[1])

\* The date C10 states for a text the M/D pattern matches: month M, day D of
\* the current year, of the next year when that day is before today.
ExpectedSpecificDay(text, t0) ==
  LET m == DateMatch(text)
      thisYear == MakeDay(GetFullYear(t0), ParseInt(m[1]) - 1, ParseInt(m[2]))
  IN IF thisYear >= t0 THEN thisYear
     ELSE MakeDay(GetFullYear(t0) + 1, ParseInt(m[1]) - 1, ParseInt(m[2]))

\* C10: for a text the M/D pattern matches, dueDate is never before today: it
\* is month M, day D of the current year when that is today or later, and one
\* year later when it is before today.
C10_SpecificDateNotBeforeToday ==
  (Returned /\ DateRuleMatches(7, inputText))
    => /\ result.dueDate # Null
       /\ DateFromISO(result.dueDate[1]) >= today
       /\ DateFromISO(result.dueDate[1]) = ExpectedSpecificDay(inputText, today)

\* The recurrence kinds in the order C11 states them, each with its phrases.
RecurringKinds ==
  << <<"daily", <<"every day", "daily">> >>,
     <<"weekly", <<"every week", "weekly">> >>,
     <<"monthly", <<"every month", "monthly">> >> >>

RecurringKindsIn(text) ==
  {k \in 1..Len(RecurringKinds) :
     \E j \in 1..Len(RecurringKinds[k][2]) :
       Includes(ToLowerCase(text), RecurringKinds[k][2][j])}

\* The recurrence C11 states for a text.
ExpectedRecurring(text) ==
  IF RecurringKindsIn(text) = {} THEN "none"
  ELSE RecurringKinds[MinOf(RecurringKindsIn(text))][1]

\* C11: recurrence detection is first match wins in the order daily, weekly,
\* monthly: after the parse of any text, recurring is the earliest kind one of
\* whose phrases the lower-cased text contains, and none when there is no such
\* kind.
C11_FirstRecurrenceWins ==
  result # Pending =>
    /\ Returned
    /\ result.recurring = ExpectedRecurring(inputText)

\* C11, on the calls that return.
C11_WhenReturned == Returned => result.recurring = ExpectedRecurring(inputText)

\* The words of a string: its maximal runs of characters that are not white
\* space.
WordsOf(s) ==
  {Substring(s, i, j) : <<i, j>> \in
     {p \in (1..Len(s)) \X (1..Len(s)) :
        /\ p[1] <= p[2]
        /\ \A k \in p[1]..p[2] : ~IsSpace(CharAt(s, k))
        /\ (p[1] = 1 \/ IsSpace(CharAt(s, p[1] - 1)))
        /\ (p[2] = Len(s) \/ IsSpace(CharAt(s, p[2] + 1)))}}

\* The time words that are words of the text.
TimeWordsWritten(text) ==
  {k \in 1..Len(TimeWords) : TimeWords[k][1] \in WordsOf(ToLowerCase(text))}

\* Whether the k-th time word is the only time expression of the text: it is
\* the one time word among the words of the text, and neither numeric pattern
\* matches.
OnlyTimeExpression(text, k) ==
  /\ TimeWordsWritten(text) = {k}
  /\ Time12Match(text) = Null
  /\ Time24Match(text) = Null

\* C12: each of the six time words yields its own time: after the parse of a
\* text whose only time expression is noon, midnight, morning, afternoon,
\* evening or night, dueTime is 12:00, 00:00, 09:00, 14:00, 18:00 or 20:00.
C12_EachTimeWordItsOwnTime ==
  \A k \in 1..Len(TimeWords) :
    (Returned /\ OnlyTimeExpression(inputText, k))
      => result.dueTime = Some(TimeWords[k][2])

\* The weekday names the text contains, as indices 0..6.
WeekdaysIn(text) ==
  {i \in 0..(Len(days) - 1) : Includes(ToLowerCase(text), days[i + 1])}

\* Whether weekday names are the only date expression of the text.
OnlyWeekdayNames(text) ==
  /\ WeekdaysIn(text) # {}
  /\ ~Includes(ToLowerCase(text), "weekend")
  /\ \A k \in {1, 2, 3, 6, 7} : ~DateRuleMatches(k, text)

\* C13: after the parse of a text with a weekday name and no other date phrase
\* or pattern, dueDate is the next day strictly after today on that weekday:
\* today + ((index - today's weekday + 7) mod 7) days, 7 days when that is 0;
\* of several weekday names the one of lowest index counts.
C13_NextOccurrenceOfWeekday ==
  (result # Pending /\ OnlyWeekdayNames(inputText))
    => /\ Returned
       /\ result.dueDate
            = Some(ToISOString(today + DaysUntil(MinOf(WeekdaysIn(inputText)), today)))

\* C13 on the names monday .. friday alone.
C13_MondayToFriday ==
  (result # Pending /\ OnlyWeekdayNames(inputText)
     /\ WeekdaysIn(inputText) \subseteq 1..5)
    => /\ Returned
       /\ result.dueDate
            = Some(ToISOString(today + DaysUntil(MinOf(WeekdaysIn(inputText)), today)))

\* Whether the weekend rule is the date rule C14 speaks of: the text contains
\* "weekend" and matches none of tomorrow, today, next week, in N days, M/D.
WeekendDecides(text) ==
  /\ Includes(ToLowerCase(text), "weekend")
  /\ \A k \in {1, 2, 3, 6, 7} : ~DateRuleMatches(k, text)

\* C14: after the parse of such a text, dueDate is the Saturday strictly after
\* today: a Saturday 1 to 7 days ahead with no Saturday in between, never today,
\* and exactly 7 days ahead when today is a Saturday.
C14_WeekendIsNextSaturday ==
  (result # Pending /\ WeekendDecides(inputText))
    => /\ Returned
       /\ result.dueDate # Null
       /\ LET due == DateFromISO(result.dueDate[1])
          IN /\ GetDay(due) = 6
             /\ due - today \in 1..7
             /\ \A d \in (today + 1)..(due - 1) : GetDay(d) # 6
             /\ GetDay(today) = 6 => due - today = 7

\* C14 witness: today is a Saturday, the text says weekend, and the parser
\* returned the Saturday one week ahead.
C14_Witness ==
  /\ Returned
  /\ WeekendDecides(inputText)
  /\ GetDay(today) = 6
  /\ result.dueDate = Some(ToISOString(today + 7))

\* The dueTime C15 states for a 12-hour match of hour h, minutes m (0 when
\* omitted) and a meridiem.
ExpectedTime12(m) ==
  LET h == ParseInt(m[1])
      mm == IF m[2] = "" THEN 0 ELSE ParseInt(m[2])
      pm == ToLowerCase(m[3]) = "pm"
      hh == IF pm /\ h # 12 THEN h + 12 ELSE IF ~pm /\ h = 12 THEN 0 ELSE h
  IN PadStart2(hh) \o ":" \o PadStart2(mm)

\* Whether C15 speaks of the text: it contains no time word, and either its
\* first 12-hour match has an hour in 1..12 or it has no 12-hour match.
TwelveHourCase(text) ==
  /\ TimeWordsIn(text) = {}
  /\ Time12Match(text) # Null => ParseInt(Time12Match(text)[1]) \in 1..12

\* What C15 states of dueTime for such a text: the conversion of the first
\* 12-hour match, whatever the 24-hour pattern matches; and a dueTime from the
\* 24-hour pattern only when there is no 12-hour match.
TwelveHourRule(text, dueTime) ==
  LET m12 == Time12Match(text)
      m24 == Time24Match(text)
  IN /\ m12 # Null => dueTime = Some(ExpectedTime12(m12))
     /\ (m12 = Null /\ dueTime # Null)
          => /\ m24 # Null
             /\ dueTime = Some(PadStart2(ParseInt(m24[1])) \o ":"
                                 \o PadStart2(ParseInt(m24[2])))

\* C15: the 12-hour conversion: after the parse of a text with no time word
\* whose first 12-hour match has hour h in 1..12, dueTime is HH:MM with MM the
\* minutes of the match and HH = h + 12 for pm and h # 12, 0 for am and h = 12,
\* h otherwise; the 24-hour pattern is used only when there is no 12-hour match.
C15_TwelveHourConversion ==
  (result # Pending /\ TwelveHourCase(inputText) /\ Time12Match(inputText) # Null)
    => /\ Returned
       /\ TwelveHourRule(inputText, result.dueTime)

\* C15, on the calls that return.
C15_WhenReturned ==
  (Returned /\ TwelveHourCase(inputText)) => TwelveHourRule(inputText, result.dueTime)

\* C16: after any sequence of add, toggle-complete, save-edit and delete, the
\* tasks of the list have pairwise distinct ids, so that toggleComplete(id) and
\* deleteTask(id) act on exactly one task.
C16_IdsPairwiseDistinct ==
  \A i, j \in 1..Len(tasks) : i # j => tasks[i].id # tasks[j].id

\* C16, of one call of toggleComplete(id) or deleteTask(id): the list handed to
\* setTasks differs from the task list in exactly one task, or is the task
\* list without exactly one task.
C16_OneTaskPerToggleOrDelete ==
  [][(Settled /\ queued' # Null /\ inputText' = inputText /\ editingTask' = editingTask)
       => IF Len(queued'[1]) = Len(tasks)
          THEN Cardinality({k \in 1..Len(tasks) : queued'[1][k] # tasks[k]}) = 1
          ELSE Len(queued'[1]) = Len(tasks) - 1]_vars

\* C17: a reload never loses tasks: once nothing is left to run or to render,
\* the store holds exactly the current task list; and if the store held a list
\* as the component mounted and no handler has changed the list since, then
\* the task list is that list and the store still holds it.
C17_ReloadKeepsTasks ==
  Settled =>
    /\ store = Some(JSONStringify(tasks))
    /\ savedAtMount # Null
         => /\ tasks = JSONParse(savedAtMount[1])
            /\ store = savedAtMount

\* C17 witness: the component mounted over a stored list of at least one task,
\* everything has run, and the task list and the store are that list.
C17_Witness ==
  /\ Settled
  /\ savedAtMount # Null
  /\ Len(JSONParse(savedAtMount[1])) >= 1
  /\ tasks = JSONParse(savedAtMount[1])
  /\ store = savedAtMount

====
